---- MODULE Spec2Model ----
(***************************************************************************)
(* Adaptive radix tree for domain names (tree.c, tree.h, simd.h, main.c).  *)
(*                                                                         *)
(* Octets are naturals in 0..255.  C arrays are functions or sequences;    *)
(* where the code indexes from 0 the model says so at the definition.      *)
(***************************************************************************)
EXTENDS Integers, Sequences, FiniteSets, TLC

VARIABLES names, keys,
          build, root, path, rc, op, arg, stored

keyVars == <<names, keys>>
treeVars == <<build, root, path, rc, op, arg, stored>>
vars == <<names, keys, build, root, path, rc, op, arg, stored>>

(***************************************************************************)
(* Program constants                                                       *)
(***************************************************************************)
\* tree.h:65
NSD_MAX_HEIGHT ==
    255
\* tree.h:73
NSD_MAX_WIDTH ==
    230
\* tree.h:75
NSD_MAX_PREFIX ==
    8

(***************************************************************************)
(* Bounds of the model                                                     *)
(***************************************************************************)
\* label octets per generated wire name (short names)
MaxNameOctets ==
    2
\* leaves one tree holds
MaxLeaves ==
    5
\* allocations of one call that succeed before one fails, at most
MaxAllocs ==
    3

\* names that arrive again at a node
MaxAgain ==
    2

(***************************************************************************)
(* Key transform: tree.c:23-90                                             *)
(***************************************************************************)
\* xlat with the uppercase branch dropped: no case folding
xlat_nofold(oct) ==
    IF oct < 65 THEN (oct + 1) % 256
    ELSE (oct - 25) % 256

\* xlat with the shift of the low octets dropped: 0x00 stays 0x00
xlat_noshift(oct) ==
    IF oct < 65 THEN oct
    ELSE IF oct < 91 THEN (oct + 7) % 256
    ELSE (oct - 25) % 256

\* tree.c:23-32, uint8_t arithmetic
xlat(oct) ==
    IF oct < 65 THEN (oct + 1) % 256
    ELSE IF oct < 91 THEN (oct + 7) % 256
    ELSE (oct - 25) % 256

\* ptr[i] = v on the sequence ptr = key - 1 (ptr[1] is key[0])
WriteAt(ptr, i, v) ==
    IF i = Len(ptr) + 1 THEN Append(ptr, v)
    ELSE [ptr EXCEPT ![i] = v]

\* name[cnt] of the C array name (0-based)
NameAt(name, cnt) ==
    name[cnt + 1]

\* tree.c:82-84: for (++cnt; cnt < len; cnt++) ptr[cnt] = xlat(name[cnt]);
\* called with cnt already incremented; the octets ptr[cnt..len-1] are written
\* in ascending order right behind what was written before
make_key_label(name, cnt, len, ptr) ==
    IF cnt < len
    THEN SubSeq(ptr, 1, cnt - 1) \o
         [i \in 1..(len - cnt) |-> xlat(NameAt(name, cnt + i - 1))]
    ELSE ptr

\* the length test off by one: a name of 257 octets passes
make_key_reject_late(oct, len) ==
    \/ (oct \div 64) % 4 # 0
    \/ len + oct + 1 > 256

\* tree.c:79: (name[cnt] & 0xc0u) || ((len += name[cnt] + 1) > 0xffu)
make_key_reject(oct, len) ==
    \/ (oct \div 64) % 4 # 0
    \/ len + oct + 1 > 255

RECURSIVE make_key_loop(_, _, _, _)
\* tree.c:78-89: the while loop, the final terminator and the return.
\* ret is the uint8_t returned (size_t cnt converted), ptr what was written
\* through ptr (ptr[i] is key[i-1]).
make_key_loop(name, cnt, len, ptr) ==
    IF NameAt(name, cnt) = 0
    THEN [ret |-> (cnt + 1) % 256, ptr |-> WriteAt(ptr, cnt + 1, 0)]
    ELSE IF make_key_reject(NameAt(name, cnt), len)
    THEN [ret |-> 0, ptr |-> ptr]
    ELSE LET len2 == len + NameAt(name, cnt) + 1
             p2 == make_key_label(name, cnt + 1, len2, ptr)
         IN  make_key_loop(name, len2, len2, WriteAt(p2, len2, 0))

\* tree.c:68-90
nsd_make_key(name) ==
    make_key_loop(name, 0, 0, <<>>)

\* the key a caller passes on: key[0..ret-1] (main.c:102-107)
KeyOf(name) ==
    LET r == nsd_make_key(name) IN SubSeq(r.ptr, 1, r.ret)

(***************************************************************************)
(* Build of the program.  simd.h selects the 16-wide primitives by         *)
(* HAVE_SSE2; tree.c compiles only with HAVE_AVX2 (the #else branch of     *)
(* add_child16, tree.c:439-473, uses undeclared identifiers), so the       *)
(* 32-wide primitives are always the vector ones.  __builtin_ctz(0) is     *)
(* undefined: ctz0 is what the build yields for it (0 from bsf on a        *)
(* cleared register, 32 from tzcnt).  ndebug: assert() compiled out.       *)
(***************************************************************************)
Builds ==
    [sse2 : BOOLEAN, ctz0 : {0, 32}, ndebug : BOOLEAN]

\* (int8_t)x of an octet
s8(x) ==
    IF x < 128 THEN x ELSE x - 256

SetMin(S) ==
    CHOOSE x \in S : \A y \in S : x <= y

\* __builtin_ctz of a bitmap given as the set of its set bit positions
ctz(bits) ==
    IF bits = {} THEN build.ctz0 ELSE SetMin(bits)

\* simd.h:27,40: the bit positions of mask for a 16-bit bitmap
mask16(max) ==
    IF max < 16 THEN 0..(max - 1) ELSE 0..15

\* simd.h:77,90
mask32(max) ==
    IF max < 32 THEN 0..(max - 1) ELSE 0..31

\* simd.h:22-33 (HAVE_SSE2) and simd.h:48-57 (scalar)
nsd_v16_findeq_u8(chr, vec, max) ==
    IF build.sse2
    THEN ctz({i \in mask16(max) : vec[i] = chr})
    ELSE LET hit == {i \in 0..15 : vec[i] = chr}
         IN  IF hit = {} THEN 0 ELSE SetMin(hit) + 1

\* simd.h:35-46 (HAVE_SSE2, signed compare) and simd.h:59-68 (scalar)
nsd_v16_findgt_u8(chr, vec, max) ==
    IF build.sse2
    THEN ctz({i \in mask16(max) : ~(s8(chr) > s8(vec[i]))})
    ELSE LET hit == {i \in 0..15 : vec[i] > chr}
         IN  IF hit = {} THEN 0 ELSE SetMin(hit) + 1

\* simd.h:72-83
nsd_v32_findeq_u8(chr, vec, max) ==
    ctz({i \in mask32(max) : vec[i] = chr})

\* simd.h:85-96
nsd_v32_findgt_u8(chr, vec, max) ==
    ctz({i \in mask32(max) : ~(s8(chr) > s8(vec[i]))})

(***************************************************************************)
(* Nodes and leaves: tree.h:91-146                                         *)
(***************************************************************************)
\* a null pointer
NULL ==
    [kind |-> "null"]

\* what a pointer read outside its array holds
Wild ==
    [kind |-> "wild"]

\* (uint8_t)-1
NoIdx ==
    255

\* a NULL nsd_node_t ** (no slot)
NoSlot ==
    -1

\* a slot address computed from a read outside an array
WildSlot ==
    -2

\* number of child slots of a node type: tree.h:99-139
Slots(type) ==
    CASE type = "node4" -> 4
      [] type = "node16" -> 16
      [] type = "node32" -> 32
      [] type = "node38" -> 38
      [] type = "node48" -> 48
      [] type = "node256" -> NSD_MAX_WIDTH

\* number of entries of the keys array of a node type: tree.h:99-139
KeySlots(type) ==
    CASE type = "node4" -> 4
      [] type = "node16" -> 16
      [] type = "node32" -> 32
      [] type = "node38" -> 0
      [] type = "node48" -> NSD_MAX_WIDTH
      [] type = "node256" -> 0

\* tree.c:108-141 (successful calloc): every field zero, type set
alloc_node(type) ==
    [kind |-> "node", type |-> type, width |-> 0, prefix |-> <<>>,
     keys |-> [i \in 0..(KeySlots(type) - 1) |-> 0],
     children |-> [i \in 0..(Slots(type) - 1) |-> NULL]]

\* tree.c:143-148
copy_header(dest, src) ==
    [dest EXCEPT !.width = src.width, !.prefix = src.prefix]

\* tree.c:150-165 (successful malloc)
make_leaf(key, key_len) ==
    [kind |-> "leaf", data |-> 0, key |-> SubSeq(key, 1, key_len)]

\* tree.h:148-152
nsd_is_leaf(n) ==
    n.kind = "leaf"

\* tree.c:34-49
node38_xlat(key) ==
    IF key >= 72 /\ key <= 97 THEN key - 60
    ELSE IF key >= 49 /\ key <= 58 THEN key - 47
    ELSE IF key = 46 THEN 1
    ELSE IF key = 0 THEN 0
    ELSE NoIdx

\* tree.c:51-66
node38_unxlat(key) ==
    IF key >= 11 /\ key <= 37 THEN key + 60
    ELSE IF key >= 2 /\ key <= 11 THEN key + 47
    ELSE IF key = 1 THEN 46
    ELSE IF key = 0 THEN 0
    ELSE NoIdx

\* tree.c:92-106: keys are sequences, key1[cnt] of the code is key1[cnt + 1]
compare_keys(key1, key1_len, key2, key2_len) ==
    LET len == IF key1_len < key2_len THEN key1_len ELSE key2_len
        diff == {c \in 0..(len - 1) : key1[c + 1] # key2[c + 1]}
    IN  IF diff = {} THEN len ELSE SetMin(diff)

(***************************************************************************)
(* find_child: tree.c:174-246.  The result is the index of the child slot  *)
(* in the node's children array (the address returned), NoSlot for NULL.   *)
(***************************************************************************)
\* tree.c:174-178
find_child256(node256, key) ==
    key

\* tree.c:180-185; keys[key] read past the end of the table gives an
\* address nothing is known about
find_child48(node48, key) ==
    IF key \notin DOMAIN node48.keys THEN WildSlot
    ELSE LET idx == node48.keys[key]
         IN  IF idx # 0 THEN idx - 1 ELSE NoSlot

\* tree.c:187-192
find_child38(node38, key) ==
    LET idx == node38_xlat(key)
    IN  IF idx # NoIdx THEN idx ELSE NoSlot

\* tree.c:194-203
find_child32(node32, key) ==
    LET idx == nsd_v32_findeq_u8(key, node32.keys, node32.width)
    IN  IF idx # 0 THEN idx - 1 ELSE NoSlot

\* tree.c:205-210
find_child16(node16, key) ==
    LET idx == nsd_v16_findeq_u8(key, node16.keys, node16.width)
    IN  IF idx # 0 THEN idx - 1 ELSE NoSlot

\* tree.c:212-222
find_child4(node4, key) ==
    LET hit == {idx \in 0..(node4.width - 1) : node4.keys[idx] = key}
    IN  IF hit = {} THEN NoSlot ELSE SetMin(hit)

\* tree.c:224-246
find_child(node, key) ==
    CASE node.type = "node4" -> find_child4(node, key)
      [] node.type = "node16" -> find_child16(node, key)
      [] node.type = "node32" -> find_child32(node, key)
      [] node.type = "node38" -> find_child38(node, key)
      [] node.type = "node48" -> find_child48(node, key)
      [] node.type = "node256" -> find_child256(node, key)

(***************************************************************************)
(* add_child: tree.c:248-566.  node is *noderef before the call; the       *)
(* result holds *noderef after it (node), the index of the slot returned   *)
(* (idx, NoSlot for NULL), the allocations left before one fails (mem) and *)
(* st: "ok", "nomem" (NULL returned), "abort" (assert failed) or "fault"   *)
(* (access outside an object).                                             *)
(***************************************************************************)
AddRes(node, idx, mem, st) ==
    [node |-> node, idx |-> idx, mem |-> mem, st |-> st]

\* a failed assert(): abort in a debug build, otherwise `then`
Asserted(cond, node, mem, then) ==
    IF ~cond /\ ~build.ndebug THEN AddRes(node, NoSlot, mem, "abort") ELSE then

\* memmove(&a[idx + 1], &a[idx], n * (width - idx)); a[idx] = v
ShiftIn(a, idx, width, v) ==
    [i \in DOMAIN a |->
        IF i = idx THEN v
        ELSE IF i > idx /\ i <= width THEN a[i - 1]
        ELSE a[i]]

\* tree.c:537-539, 494-496, 405-407 with the memmoves before them
InsertAt(node, idx, key, child) ==
    [node EXCEPT !.keys = ShiftIn(node.keys, idx, node.width, key),
                 !.children = ShiftIn(node.children, idx, node.width, child),
                 !.width = node.width + 1]

\* tree.c:248-261
add_child256(node256, key, node, mem) ==
    IF key \notin DOMAIN node256.children
    THEN AddRes(node256, NoSlot, mem, "fault")
    ELSE Asserted(node256.children[key] = NULL, node256, mem,
           AddRes([node256 EXCEPT !.width = (node256.width + 1) % 256,
                                  !.children[key] = node],
                  key, mem, "ok"))

\* tree.c:278-289: node48 as a node256
promote48to256(node48) ==
    [copy_header(alloc_node("node256"), node48) EXCEPT
        !.children = [idx \in 0..(NSD_MAX_WIDTH - 1) |->
                         IF node48.keys[idx] # 0
                         THEN node48.children[node48.keys[idx] - 1]
                         ELSE NULL]]

\* tree.c:263-299
add_child48(node48, key, node, mem) ==
    IF node48.width = 48
    THEN IF mem = 0 THEN AddRes(node48, NoSlot, mem, "nomem")
         ELSE IF Cardinality({i \in DOMAIN node48.keys : node48.keys[i] # 0})
                    < node48.width
         THEN AddRes(node48, NoSlot, mem, "fault")
         ELSE add_child256(promote48to256(node48), key, node, mem - 1)
    ELSE IF key \notin DOMAIN node48.keys
    THEN AddRes(node48, NoSlot, mem, "fault")
    ELSE Asserted(node48.keys[key] = 0, node48, mem,
           AddRes([node48 EXCEPT !.width = node48.width + 1,
                                 !.keys[key] = node48.width + 1,
                                 !.children[node48.width] = node],
                  node48.width, mem, "ok"))

\* tree.c:317-326: node38 as a node48; the children in use are packed in
\* ascending index order and keyed by node38_unxlat
promote38to48(node38) ==
    LET used == {idx \in 0..37 : node38.children[idx] # NULL}
        rank(idx) == Cardinality({j \in used : j <= idx})
        taken == {idx \in used : rank(idx) <= node38.width}
    IN  [copy_header(alloc_node("node48"), node38) EXCEPT
            !.keys = [k \in 0..(NSD_MAX_WIDTH - 1) |->
                         IF \E idx \in taken : node38_unxlat(idx) = k
                         THEN rank(CHOOSE idx \in taken : node38_unxlat(idx) = k)
                         ELSE 0],
            !.children = [c \in 0..47 |->
                             IF \E idx \in taken : rank(idx) = c + 1
                             THEN node38.children[CHOOSE idx \in taken :
                                                     rank(idx) = c + 1]
                             ELSE NULL]]

\* tree.c:301-339
add_child38(node38, key, child, mem) ==
    LET idx == node38_xlat(key)
    IN  IF idx = NoIdx
        THEN IF mem = 0 THEN AddRes(node38, NoSlot, mem, "nomem")
             ELSE Asserted(Cardinality({i \in 0..37 : node38.children[i] # NULL})
                              >= node38.width, node38, mem,
                    add_child48(promote38to48(node38), key, child, mem - 1))
        ELSE Asserted(node38.width < 38 /\ node38.children[idx] = NULL,
               node38, mem,
               AddRes([node38 EXCEPT !.children[idx] = child,
                                     !.width = node38.width + 1],
                      idx, mem, "ok"))

\* ishost32 without the loop over the keys present: tree.c:355 alone
ishost32_keyonly(node32, key) ==
    node38_xlat(key) # NoIdx

\* tree.c:355-359
ishost32(node32, key) ==
    /\ node38_xlat(key) # NoIdx
    /\ \A idx \in 0..31 : node38_xlat(node32.keys[idx]) # NoIdx

\* tree.c:366-370: node32 as a node38 (a later idx overwrites an earlier one)
promote32to38(node32) ==
    [copy_header(alloc_node("node38"), node32) EXCEPT
        !.children = [j \in 0..37 |->
            LET from == {idx \in 0..31 : node38_xlat(node32.keys[idx]) = j}
            IN  IF from = {} THEN NULL
                ELSE node32.children[CHOOSE idx \in from :
                                        \A o \in from : o <= idx]]]

\* tree.c:379-383: node32 as a node48
promote32to48(node32) ==
    [copy_header(alloc_node("node48"), node32) EXCEPT
        !.keys = [k \in 0..(NSD_MAX_WIDTH - 1) |->
            LET from == {idx \in 0..31 : node32.keys[idx] = k}
            IN  IF from = {} THEN 0
                ELSE 1 + CHOOSE idx \in from : \A o \in from : o <= idx],
        !.children = [c \in 0..47 |->
            IF c < 32 THEN node32.children[c] ELSE NULL]]

\* tree.c:392-409, 479-498: the insertion at the index findgt gave
insert_found(node, found, key, child, mem) ==
    IF found # 0
    THEN Asserted(found < node.width, node, mem,
           IF found > node.width
           THEN AddRes(node, NoSlot, mem, "fault")
           ELSE AddRes(InsertAt(node, found, key, child), found, mem, "ok"))
    ELSE AddRes(InsertAt(node, node.width, key, child), node.width, mem, "ok")

\* tree.c:341-413
add_child32(node32, key, child, mem) ==
    IF node32.width = 32
    THEN IF mem = 0 THEN AddRes(node32, NoSlot, mem, "nomem")
         ELSE IF ishost32(node32, key)
         THEN add_child38(promote32to38(node32), key, child, mem - 1)
         ELSE IF \E idx \in 0..31 : node32.keys[idx] >= NSD_MAX_WIDTH
         THEN AddRes(node32, NoSlot, mem, "fault")
         ELSE add_child48(promote32to48(node32), key, child, mem - 1)
    ELSE insert_found(node32,
                      nsd_v32_findgt_u8(key, node32.keys, node32.width),
                      key, child, mem)

\* tree.c:432-434: node16 as a node32
promote16to32(node16) ==
    [copy_header(alloc_node("node32"), node16) EXCEPT
        !.keys = [i \in 0..31 |-> IF i < 16 THEN node16.keys[i] ELSE 0],
        !.children = [i \in 0..31 |->
                         IF i < 16 THEN node16.children[i] ELSE NULL]]

\* tree.c:415-499 (HAVE_AVX2)
add_child16(node16, key, child, mem) ==
    IF node16.width = 16
    THEN IF mem = 0 THEN AddRes(node16, NoSlot, mem, "nomem")
         ELSE add_child32(promote16to32(node16), key, child, mem - 1)
    ELSE insert_found(node16,
                      nsd_v16_findgt_u8(key, node16.keys, node16.width),
                      key, child, mem)

\* promote4to16 with alloc_node(nsd_node32) at tree.c:509
promote4to32(node4) ==
    [copy_header(alloc_node("node32"), node4) EXCEPT
        !.keys = [i \in 0..31 |-> IF i < 4 THEN node4.keys[i] ELSE 0],
        !.children = [i \in 0..31 |->
                         IF i < 4 THEN node4.children[i] ELSE NULL]]

\* tree.c:513-515: node4 as a node16
promote4to16(node4) ==
    [copy_header(alloc_node("node16"), node4) EXCEPT
        !.keys = [i \in 0..15 |-> IF i < 4 THEN node4.keys[i] ELSE 0],
        !.children = [i \in 0..15 |->
                         IF i < 4 THEN node4.children[i] ELSE NULL]]

\* tree.c:501-542
add_child4(node4, key, child, mem) ==
    IF node4.width = 4
    THEN IF mem = 0 THEN AddRes(node4, NoSlot, mem, "nomem")
         ELSE add_child16(promote4to16(node4), key, child, mem - 1)
    ELSE LET stop == {i \in 0..(node4.width - 1) : ~(key > node4.keys[i])}
             idx == IF stop = {} THEN node4.width ELSE SetMin(stop)
         IN  Asserted(idx >= node4.width \/ key # node4.keys[idx], node4, mem,
               AddRes(InsertAt(node4, idx, key, child), idx, mem, "ok"))

\* tree.c:544-566
add_child(node, key, child, mem) ==
    CASE node.type = "node4" -> add_child4(node, key, child, mem)
      [] node.type = "node16" -> add_child16(node, key, child, mem)
      [] node.type = "node32" -> add_child32(node, key, child, mem)
      [] node.type = "node38" -> add_child38(node, key, child, mem)
      [] node.type = "node48" -> add_child48(node, key, child, mem)
      [] node.type = "node256" -> add_child256(node, key, child, mem)

(***************************************************************************)
(* Tree and path: tree.h:160-175.  The tree is the value of tree->root     *)
(* with the children nested in it.  A nsd_node_t ** (noderef) is the       *)
(* sequence of child slot indices leading from &tree->root to the slot:    *)
(* <<>> is &tree->root, <<2>> is &root->children[2], and so on.  A level   *)
(* is [depth, noderef]; a path is the sequence levels[0..height-1].        *)
(***************************************************************************)
RECURSIVE Deref(_, _)
\* *noderef
Deref(tree, noderef) ==
    IF noderef = <<>> THEN tree
    ELSE IF tree.kind # "node" \/ Head(noderef) \notin DOMAIN tree.children
    THEN Wild
    ELSE Deref(tree.children[Head(noderef)], Tail(noderef))

RECURSIVE SetSlot(_, _, _)
\* *noderef = v
SetSlot(tree, noderef, v) ==
    IF noderef = <<>> THEN v
    ELSE [tree EXCEPT !.children[Head(noderef)] =
                          SetSlot(tree.children[Head(noderef)], Tail(noderef), v)]

Level(depth, noderef) ==
    [depth |-> depth, noderef |-> noderef]

\* key + depth
Drop(key, depth) ==
    SubSeq(key, depth + 1, Len(key))

\* key[i] of the C array key
KeyAt(key, i) ==
    key[i + 1]

Front(q) ==
    SubSeq(q, 1, Len(q) - 1)

\* tree.c:579-587, 647-655: the first level of an empty path, the depth of
\* the last level of a populated one
StartPath(pth) ==
    IF pth = <<>> THEN <<Level(0, <<>>)>> ELSE pth

StartDepth(pth) ==
    IF pth = <<>> THEN 0 ELSE pth[Len(pth)].depth

(***************************************************************************)
(* nsd_find_path: tree.c:568-634.  rc is the return code, "abort" for a    *)
(* failed assert() and "fault" for an access through a null pointer or     *)
(* outside an object, after which nothing is known about the process.      *)
(***************************************************************************)
FindRes(pth, code) ==
    [path |-> pth, rc |-> code]

\* tree.c:593-608
find_at_leaf(pth, leaf, key, key_len, depth) ==
    LET cnt == compare_keys(key, key_len, leaf.key, Len(leaf.key))
    IN  IF ~build.ndebug /\ ~(key_len >= Len(leaf.key) /\ cnt >= depth)
        THEN FindRes(pth, "abort")
        ELSE IF cnt = key_len
        THEN IF ~build.ndebug /\ key_len # Len(leaf.key)
             THEN FindRes(pth, "abort")
             ELSE FindRes(pth, "ok")
        ELSE FindRes(Front(pth), "not_found")

RECURSIVE find_loop(_, _, _, _, _)
\* tree.c:591-633
find_loop(tree, key, key_len, pth, depth) ==
    IF ~(depth < key_len) THEN FindRes(pth, "ok")
    ELSE
    LET noderef == pth[Len(pth)].noderef
        n == Deref(tree, noderef)
    IN  IF n.kind \in {"null", "wild"} THEN FindRes(pth, "fault")
        ELSE IF nsd_is_leaf(n) THEN find_at_leaf(pth, n, key, key_len, depth)
        ELSE
        LET cnt == IF Len(n.prefix) # 0
                   THEN compare_keys(Drop(key, depth), key_len - depth,
                                     n.prefix, Len(n.prefix))
                   ELSE 0
            d2 == depth + cnt
        IN  IF cnt # Len(n.prefix) THEN FindRes(Front(pth), "not_found")
            ELSE IF d2 >= key_len THEN FindRes(pth, "fault")
            ELSE
            LET childref == find_child(n, KeyAt(key, d2))
            IN  IF childref = NoSlot THEN FindRes(pth, "not_found")
                ELSE IF Len(pth) >= NSD_MAX_HEIGHT THEN FindRes(pth, "fault")
                ELSE find_loop(tree, key, key_len,
                               Append(pth, Level(d2, Append(noderef, childref))),
                               d2 + 1)

\* tree.c:568-634
nsd_find_path(tree, pth, key, key_len) ==
    IF ~build.ndebug /\ ~(key_len # 0 /\ key_len >= StartDepth(pth))
    THEN FindRes(pth, "abort")
    ELSE find_loop(tree, key, key_len, StartPath(pth), StartDepth(pth))

(***************************************************************************)
(* nsd_make_path: tree.c:636-796.  A state of the call is the tree, the    *)
(* path, depth, the allocations left before one fails (mem) and rc: "run"  *)
(* while the loop runs, then the return code, "abort" or "fault".          *)
(***************************************************************************)
MakeRes(tree, pth, depth, mem, code) ==
    [tree |-> tree, path |-> pth, depth |-> depth, mem |-> mem, rc |-> code]

\* the value of a set of one element: a local variable, computed once
The(S) ==
    CHOOSE x \in S : TRUE

Stop(st, code) ==
    [st EXCEPT !.rc = code]

\* tree.c:770-792: descend into the child for key[depth] or add the leaf.
\* noderef is the local noderef of the loop body.
make_descend(st, noderef, key, key_len) ==
    LET n == Deref(st.tree, noderef)
    IN  IF st.depth >= key_len \/ n.kind # "node" THEN Stop(st, "fault")
        ELSE
        LET childref == find_child(n, KeyAt(key, st.depth))
        IN  IF childref # NoSlot
            THEN IF Len(st.path) >= NSD_MAX_HEIGHT THEN Stop(st, "fault")
                 ELSE MakeRes(st.tree,
                              Append(st.path,
                                     Level(st.depth, Append(noderef, childref))),
                              st.depth + 1, st.mem, "run")
            ELSE IF st.mem = 0 THEN Stop(st, "no_memory")
            ELSE
            The({IF r.st = "nomem" THEN Stop(st, "no_memory")
                 ELSE IF r.st # "ok" THEN Stop(st, r.st)
                 ELSE IF Len(st.path) >= NSD_MAX_HEIGHT THEN Stop(st, "fault")
                 ELSE MakeRes(SetSlot(st.tree, noderef, r.node),
                              Append(st.path,
                                     Level(st.depth, Append(noderef, r.idx))),
                              key_len, r.mem, "run")
                 : r \in {add_child(n, KeyAt(key, st.depth),
                                    make_leaf(key, key_len), st.mem - 1)}})

\* tree.c:696-701: the prefix length of a chain node, first octet excluded
chain_len(cnt, depth) ==
    IF cnt - depth > NSD_MAX_PREFIX THEN NSD_MAX_PREFIX ELSE cnt - depth - 1

\* free_chain with the loop stopped at height 1: the first node of the
\* chain, which relpath.levels[0] refers to, stays allocated
free_chain_tail(dummy, rel) ==
    [k \in 1..(Len(rel) - 1) |->
        [at |-> rel[Len(rel) + 1 - k].noderef,
         node |-> Deref(dummy, rel[Len(rel) + 1 - k].noderef)]]

\* tree.c:690-692: free_node(*relpath.levels[--relpath.height].noderef)
\* while relpath.height > 0: the objects freed, last level first, each with
\* the place of its slot relative to &dummy
free_chain(dummy, rel) ==
    [k \in 1..Len(rel) |->
        [at |-> rel[Len(rel) + 1 - k].noderef,
         node |-> Deref(dummy, rel[Len(rel) + 1 - k].noderef)]]

RECURSIVE split_chain(_, _, _, _, _, _)
\* tree.c:687-717: the chain of node4 for key[depth..cnt).  dummy is the
\* local dummy (the first node of the chain, its successors nested in it),
\* rel the levels of relpath with noderef relative to &dummy.  On a failed
\* allocation the nodes of the chain are freed (tree.c:690-692): freed.
split_chain(key, depth, cnt, mem, dummy, rel) ==
    IF ~(depth < cnt)
    THEN [st |-> "ok", dummy |-> dummy, rel |-> rel, depth |-> depth,
          mem |-> mem, freed |-> <<>>]
    ELSE IF mem = 0
    THEN [st |-> "nomem", dummy |-> NULL, rel |-> <<>>, depth |-> depth,
          mem |-> mem, freed |-> free_chain(dummy, rel)]
    ELSE
    LET len == chain_len(cnt, depth)
        node == [alloc_node("node4") EXCEPT
                    !.prefix = SubSeq(key, depth + 2, depth + 1 + len)]
    IN  IF rel = <<>>
        THEN split_chain(key, depth + 1 + len, cnt, mem - 1, node,
                         <<Level(depth, <<>>)>>)
        ELSE
        LET at == rel[Len(rel)].noderef
        IN  The({split_chain(key, depth + 1 + len, cnt, r.mem,
                             SetSlot(dummy, at, r.node),
                             Append(rel, Level(depth, Append(at, r.idx))))
                 : r \in {add_child(Deref(dummy, at), KeyAt(key, depth),
                                    node, mem - 1)}})

\* tree.c:721-729: the levels of relpath behind the dummy, appended to the
\* path; their slots are the same objects, now reached through noderef
merge_paths(pth, noderef, rel) ==
    pth \o [i \in 1..(Len(rel) - 1) |->
               Level(rel[i + 1].depth, noderef \o rel[i + 1].noderef)]

\* tree.c:719-733, 770-792: the chain ch replaces the leaf, its levels are
\* appended to the path, the leaf is added to the last node of the chain,
\* and the loop body goes on with its local noderef
make_after_split(st, noderef, leaf, key, key_len, cnt, ch) ==
    IF ch.st = "nomem" THEN Stop(st, "no_memory")
    ELSE IF ch.rel = <<>> \/ ~(cnt < Len(leaf.key))
    THEN Stop(st, "fault")
    ELSE
    LET t1 == SetSlot(st.tree, noderef, ch.dummy)
        p1 == merge_paths(st.path, noderef, ch.rel)
        top == p1[Len(p1)].noderef
    IN  IF Len(p1) > NSD_MAX_HEIGHT THEN Stop(st, "fault")
        ELSE The({make_descend(
                    MakeRes(SetSlot(t1, top, r.node), p1, ch.depth, r.mem,
                            "run"),
                    noderef, key, key_len)
                  : r \in {add_child(Deref(t1, top), KeyAt(leaf.key, ch.depth),
                                     leaf, ch.mem)}})

\* tree.c:661-733: the level on top of the path holds a leaf
make_at_leaf(st, noderef, leaf, key, key_len) ==
    LET cnt == compare_keys(key, key_len, leaf.key, Len(leaf.key))
    IN  IF ~build.ndebug /\ ~(key_len >= Len(leaf.key) /\ cnt >= st.depth)
        THEN Stop(st, "abort")
        ELSE IF cnt = key_len
        THEN IF ~build.ndebug /\ key_len # Len(leaf.key)
             THEN Stop(st, "abort")
             ELSE Stop(st, "ok")
        ELSE IF ~build.ndebug /\ ~(cnt < Len(leaf.key))
        THEN Stop(st, "abort")
        ELSE
        The({make_after_split(st, noderef, leaf, key, key_len, cnt, ch)
             : ch \in {split_chain(key, st.path[Len(st.path)].depth, cnt,
                                   st.mem, NULL, <<>>)}})

\* split_node with the old node's prefix left as it was: tree.c:751-765
\* without the lines 755-762
split_node_noshift(old, cnt, mem) ==
    add_child([alloc_node("node4") EXCEPT !.prefix = SubSeq(old.prefix, 1, cnt)],
              old.prefix[cnt + 1], old, mem)

\* tree.c:751-765: the node4 put in front of node `old`, whose prefix
\* differs from the key at offset cnt
split_node(old, cnt, mem) ==
    add_child([alloc_node("node4") EXCEPT !.prefix = SubSeq(old.prefix, 1, cnt)],
              old.prefix[cnt + 1],
              [old EXCEPT !.prefix = SubSeq(old.prefix, cnt + 2, Len(old.prefix))],
              mem)

\* tree.c:734-768: the level on top of the path holds a node with a prefix
make_at_prefix(st, noderef, n, key, key_len) ==
    LET cnt == compare_keys(Drop(key, st.depth), key_len - st.depth,
                            n.prefix, Len(n.prefix))
    IN  IF ~build.ndebug /\ st.path[Len(st.path)].depth # st.depth - 1
        THEN Stop(st, "abort")
        ELSE IF cnt = Len(n.prefix)
        THEN make_descend([st EXCEPT !.depth = st.depth + cnt],
                          noderef, key, key_len)
        ELSE IF ~build.ndebug /\ ~(cnt < key_len - st.depth)
        THEN Stop(st, "abort")
        ELSE IF st.mem = 0 THEN Stop(st, "no_memory")
        ELSE
        The({make_descend(
               MakeRes(SetSlot(st.tree, noderef, r.node), st.path,
                       st.depth + cnt, r.mem, "run"),
               noderef, key, key_len)
             : r \in {split_node(n, cnt, st.mem - 1)}})

\* tree.c:660-792: one iteration of the loop
make_step(st, key, key_len) ==
    LET noderef == st.path[Len(st.path)].noderef
        n == Deref(st.tree, noderef)
    IN  IF n.kind \in {"null", "wild"} THEN Stop(st, "fault")
        ELSE IF nsd_is_leaf(n) THEN make_at_leaf(st, noderef, n, key, key_len)
        ELSE IF Len(n.prefix) # 0
        THEN make_at_prefix(st, noderef, n, key, key_len)
        ELSE make_descend(st, noderef, key, key_len)

RECURSIVE make_loop(_, _, _)
\* tree.c:659-795
make_loop(st, key, key_len) ==
    IF st.rc # "run" THEN st
    ELSE IF ~(st.depth < key_len) THEN Stop(st, "ok")
    ELSE The({make_loop(s, key, key_len) : s \in {make_step(st, key, key_len)}})

\* tree.c:636-796
nsd_make_path(tree, pth, key, key_len, mem) ==
    IF ~build.ndebug /\ ~(key_len # 0 /\ key_len >= StartDepth(pth))
    THEN MakeRes(tree, pth, 0, mem, "abort")
    ELSE make_loop(MakeRes(tree, StartPath(pth), StartDepth(pth), mem, "run"),
                   key, key_len)

(***************************************************************************)
(* Wire names fed to nsd_make_key                                          *)
(***************************************************************************)
\* label octets used for short names: 0x00, 'A' (0x41), '[' (0x5b), 'a' (0x61)
LabelOctets ==
    {0, 65, 91, 97}

RECURSIVE LabelLists(_)
\* every list of non-empty labels over LabelOctets with at most n octets
LabelLists(n) ==
    IF n = 0 THEN {<<>>}
    ELSE {<<>>} \cup
         UNION { { <<l>> \o rest : l \in [1..j -> LabelOctets],
                                   rest \in LabelLists(n - j) } : j \in 1..n }

RECURSIVE Wire(_)
\* wire format of a list of labels: length octet, octets, ..., root label
Wire(labels) ==
    IF labels = <<>> THEN <<0>>
    ELSE <<Len(labels[1])>> \o labels[1] \o Wire(Tail(labels))

\* a label of n octets 'a'
Fill(n) ==
    [i \in 1..n |-> 97]

\* names at the length limit and names with a length octet that is no
\* label length (top bits set)
LongNames ==
    { Wire(<<Fill(63), Fill(63), Fill(63), Fill(61)>>),
      Wire(<<Fill(63), Fill(63), Fill(63), Fill(62)>>),
      Wire(<<Fill(63), Fill(63), Fill(63), Fill(63)>>),
      Wire(<<Fill(63), Fill(63), Fill(63), Fill(63), Fill(63)>>) }

BadNames ==
    { <<64>> \o Fill(64) \o <<0>>,
      <<128, 97, 0>>,
      <<192, 12, 0>>,
      <<1, 97, 192, 12, 0>>,
      <<1, 97, 65, 97, 0>> }

WireNames ==
    { Wire(l) : l \in LabelLists(MaxNameOctets) } \cup LongNames \cup BadNames

NoKey ==
    [ret |-> -1, ptr |-> <<>>]

(***************************************************************************)
(* Specification of the key transform: two names, each transformed once    *)
(***************************************************************************)
InitBuild ==
    [sse2 |-> TRUE, ctz0 |-> 32, ndebug |-> TRUE]

\* main.c:87-88: the root is an empty node4
InitRoot ==
    alloc_node("node4")

InitKey ==
    /\ names \in WireNames \X WireNames
    /\ keys = <<NoKey, NoKey>>
    /\ build = InitBuild
    /\ root = InitRoot
    /\ path = <<>>
    /\ rc = "none"
    /\ op = "none"
    /\ arg = <<>>
    /\ stored = {}

MakeKey(i) ==
    /\ keys[i] = NoKey
    /\ keys' = [keys EXCEPT ![i] = nsd_make_key(names[i])]
    /\ UNCHANGED <<names, build, root, path, rc, op, arg, stored>>

NextKey ==
    \E i \in 1..2 : MakeKey(i)

SpecKey ==
    InitKey /\ [][NextKey]_vars

(***************************************************************************)
(* Specification of the tree: main.c.  A run works on one family of wire   *)
(* names; every name is transformed by nsd_make_key before it is used.     *)
(***************************************************************************)
\* a label of n octets o
Rep(o, n) ==
    [i \in 1..n |-> o]

\* aaaaaaaa. with b, bc, bb, c below it: keys that share more than nine
\* octets behind the octet that leads to the leaf
FamChain ==
    << Wire(<<Rep(97, 8)>>),
       Wire(<<Rep(97, 8), <<98>>>>),
       Wire(<<Rep(97, 8), <<98, 99>>>>),
       Wire(<<Rep(97, 8), <<98, 98>>>>),
       Wire(<<Rep(97, 8), <<99>>>>) >>

\* foo. and names below it as in the examples of tree.h:56-62, and fox.
FamZone ==
    << Wire(<<<<102, 111, 111>>>>),
       Wire(<<<<102, 111, 111>>, <<98, 97, 114>>>>),
       Wire(<<<<102, 111, 111>>, <<98, 97, 114>>, <<97>>>>),
       Wire(<<<<102, 111, 111>>, <<98, 97, 114>>, <<98>>>>),
       Wire(<<<<102, 111, 120>>>>) >>

\* the root name and one-octet names: more than four children in the root
FamWide ==
    << Wire(<<>>),
       Wire(<<<<97>>>>),
       Wire(<<<<98>>>>),
       Wire(<<<<99>>>>),
       Wire(<<<<200>>>>) >>

Families ==
    {FamChain, FamZone, FamWide}

\* no allocation fails
NoFail ==
    1000

Init ==
    /\ names \in Families
    /\ keys = [i \in DOMAIN names |-> nsd_make_key(names[i])]
    /\ build \in Builds
    /\ root = InitRoot
    /\ path = <<>>
    /\ rc = "none"
    /\ op = "none"
    /\ arg = <<>>
    /\ stored = {}

\* after abort() or a fault the process is gone
Alive ==
    rc \notin {"abort", "fault"}

\* main.c:103-108: a name whose key has length 0 is skipped
Usable(i) ==
    keys[i].ret # 0

KeyArg(i) ==
    SubSeq(keys[i].ptr, 1, keys[i].ret)

RECURSIVE LeafCount(_), LeafCountIn(_, _)
\* the leaves below a node: the lines of input that made the tree
LeafCount(node) ==
    IF node.kind = "leaf" THEN 1
    ELSE IF node.kind = "node" THEN LeafCountIn(node, Slots(node.type))
    ELSE 0

LeafCountIn(node, n) ==
    IF n = 0 THEN 0
    ELSE LeafCount(node.children[n - 1]) + LeafCountIn(node, n - 1)

\* main.c:25-28: nsd_make_path on a path of height 0
MakePath(i, mem) ==
    /\ Alive
    /\ Usable(i)
    /\ LeafCount(root) < MaxLeaves
    /\ \E r \in {nsd_make_path(root, <<>>, KeyArg(i), keys[i].ret, mem)} :
           /\ root' = IF r.rc \in {"abort", "fault"} THEN root ELSE r.tree
           /\ path' = r.path
           /\ rc' = r.rc
           /\ stored' = IF r.rc = "ok" THEN stored \cup {KeyArg(i)} ELSE stored
    /\ op' = "make"
    /\ arg' = KeyArg(i)
    /\ UNCHANGED <<names, keys, build>>

\* main.c:54-57: nsd_find_path on a path of height 0
FindPath(i) ==
    /\ Alive
    /\ Usable(i)
    /\ \E r \in {nsd_find_path(root, <<>>, KeyArg(i), keys[i].ret)} :
           /\ path' = r.path
           /\ rc' = r.rc
    /\ op' = "find"
    /\ arg' = KeyArg(i)
    /\ UNCHANGED <<names, keys, build, root, stored>>

\* main.c:32-40: put_key stores the value in a leaf that has none.  The
\* asserts of main.c:32-33 guard the access; without them the write goes to
\* whatever the top of the path refers to.
PutData ==
    /\ Alive
    /\ op = "make"
    /\ rc = "ok"
    /\ LET top == IF path = <<>> THEN Wild
                  ELSE Deref(root, path[Len(path)].noderef)
       IN  IF top.kind = "leaf"
           THEN /\ top.data = 0
                /\ root' = SetSlot(root, path[Len(path)].noderef,
                                   [top EXCEPT !.data = 1])
                /\ rc' = rc
           ELSE /\ root' = root
                /\ rc' = IF build.ndebug THEN "fault" ELSE "abort"
    /\ op' = "put"
    /\ UNCHANGED <<names, keys, build, path, arg, stored>>

Next ==
    \/ \E i \in DOMAIN names : MakePath(i, NoFail)
    \/ \E i \in DOMAIN names : FindPath(i)
    \/ PutData

Spec ==
    Init /\ [][Next]_vars

(***************************************************************************)
(* Vocabulary of the claims about the key transform                        *)
(***************************************************************************)
RECURSIVE LenPositions(_, _)
\* the 0-based indices of the length octets of a wire name, up to and
\* including the root label or the first length octet with a top bit set
LenPositions(name, pos) ==
    IF pos + 1 > Len(name) THEN {}
    ELSE IF name[pos + 1] = 0 \/ name[pos + 1] >= 64 THEN {pos}
    ELSE {pos} \cup LenPositions(name, pos + name[pos + 1] + 1)

HasBadLen(name) ==
    \E p \in LenPositions(name, 0) : name[p + 1] >= 64

\* the root label ends the name, so the wire length is the sequence length
WireLen(name) ==
    Len(name)

ValidName(name) ==
    ~HasBadLen(name) /\ WireLen(name) <= 255

RECURSIVE LabelsOf(_, _)
\* the labels of a valid wire name, leftmost first
LabelsOf(name, pos) ==
    IF name[pos + 1] = 0 THEN <<>>
    ELSE <<SubSeq(name, pos + 2, pos + 1 + name[pos + 1])>> \o
         LabelsOf(name, pos + name[pos + 1] + 1)

FoldOctet(o) ==
    IF o >= 65 /\ o <= 90 THEN o + 32 ELSE o

FoldLabels(ls) ==
    [i \in 1..Len(ls) |-> [j \in 1..Len(ls[i]) |-> FoldOctet(ls[i][j])]]

Reverse(s) ==
    [i \in 1..Len(s) |-> s[Len(s) + 1 - i]]

IsPrefix(s, t) ==
    Len(s) <= Len(t) /\ SubSeq(t, 1, Len(s)) = s

\* octet strings: s sorts before t (a proper prefix sorts first)
LexLess(s, t) ==
    \/ IsPrefix(s, t) /\ Len(s) < Len(t)
    \/ \E i \in 1..Len(s) :
          /\ i <= Len(t)
          /\ SubSeq(s, 1, i - 1) = SubSeq(t, 1, i - 1)
          /\ s[i] < t[i]

\* sequences of labels: s sorts before t, labels compared as octet strings
LabelSeqLess(s, t) ==
    \/ IsPrefix(s, t) /\ Len(s) < Len(t)
    \/ \E i \in 1..Len(s) :
          /\ i <= Len(t)
          /\ SubSeq(s, 1, i - 1) = SubSeq(t, 1, i - 1)
          /\ LexLess(s[i], t[i])

\* RFC 4034 section 6.1: labels from the rightmost, case folded
CanonLess(a, b) ==
    LabelSeqLess(Reverse(FoldLabels(LabelsOf(a, 0))),
                 Reverse(FoldLabels(LabelsOf(b, 0))))

\* both names are valid and both keys have been made
BothMade ==
    /\ keys[1] # NoKey /\ keys[2] # NoKey
    /\ ValidName(names[1]) /\ ValidName(names[2])

MadeKey(i) ==
    SubSeq(keys[i].ptr, 1, keys[i].ret)

(***************************************************************************)
(* C5: the lexicographic order of the keys of two valid names equals the   *)
(* canonical DNS order of the names (RFC 4034 section 6.1).                *)
(***************************************************************************)
C5_KeyOrderIsCanonicalOrder ==
    BothMade =>
        (CanonLess(names[1], names[2]) <=> LexLess(MadeKey(1), MadeKey(2)))

(***************************************************************************)
(* C6: for a valid name p and a descendant d of p (labels in front of the  *)
(* labels of p), the key of p sorts before the key of d and the key of p   *)
(* without its final terminator is a prefix of the key of d.               *)
(***************************************************************************)
IsDescendant(d, p) ==
    LET ld == LabelsOf(d, 0)
        lp == LabelsOf(p, 0)
    IN  /\ Len(ld) > Len(lp)
        /\ SubSeq(ld, Len(ld) - Len(lp) + 1, Len(ld)) = lp

C6_ParentKeyPrefixesDescendant ==
    (BothMade /\ IsDescendant(names[2], names[1])) =>
        /\ LexLess(MadeKey(1), MadeKey(2))
        /\ IsPrefix(SubSeq(MadeKey(1), 1, Len(MadeKey(1)) - 1), MadeKey(2))

(***************************************************************************)
(* C7: two valid names have the same key (length and octets) exactly when  *)
(* they are equal after folding A-Z to lowercase.                          *)
(***************************************************************************)
C7_KeyEqualIffFoldEqual ==
    BothMade =>
        ((keys[1].ret = keys[2].ret /\ MadeKey(1) = MadeKey(2))
           <=> FoldLabels(LabelsOf(names[1], 0)) = FoldLabels(LabelsOf(names[2], 0)))

\* two different spellings of one name, both transformed
C7_Witness ==
    /\ BothMade
    /\ names[1] # names[2]
    /\ MadeKey(1) = MadeKey(2)
    /\ Len(MadeKey(1)) > 1

(***************************************************************************)
(* C8: the keys of two valid names with different keys are not prefixes of *)
(* one another; no label octet becomes 0x00, and 0x00 stands in a key only *)
(* where a length octet stood in the name and as the final terminator.     *)
(***************************************************************************)
ZerosOnlySeparate(i) ==
    LET k == MadeKey(i)
        lp == LenPositions(names[i], 0)
    IN  /\ k[Len(k)] = 0
        /\ \A p \in 1..(Len(k) - 1) : (k[p] = 0) <=> (p \in lp)

C8_KeysPrefixFree ==
    /\ \A o \in 0..255 : xlat(o) # 0
    /\ \A i \in 1..2 :
          (keys[i] # NoKey /\ ValidName(names[i])) => ZerosOnlySeparate(i)
    /\ (BothMade /\ MadeKey(1) # MadeKey(2)) =>
          /\ ~IsPrefix(MadeKey(1), MadeKey(2))
          /\ ~IsPrefix(MadeKey(2), MadeKey(1))

\* a name and a descendant-like longer name sharing a first label, one with
\* a label octet 0x00
C8_Witness ==
    /\ BothMade
    /\ MadeKey(1) # MadeKey(2)
    /\ Len(MadeKey(1)) < Len(MadeKey(2))
    /\ MadeKey(1)[1] = MadeKey(2)[1]
    /\ \E p \in 1..Len(names[2]) :
          p - 1 \notin LenPositions(names[2], 0) /\ names[2][p] = 0

(***************************************************************************)
(* C9: nsd_make_key returns 0 when a length octet has one of its top two   *)
(* bits set or the wire name is longer than 255 octets, and the wire       *)
(* length of the name (1 for the root) for every other name.               *)
(***************************************************************************)
C9_MakeKeyLength ==
    \A i \in 1..2 :
        keys[i] # NoKey =>
            IF HasBadLen(names[i]) \/ WireLen(names[i]) > 255
            THEN keys[i].ret = 0
            ELSE keys[i].ret # 0 /\ keys[i].ret = WireLen(names[i])

\* the longest valid name and a name of 256 octets, both transformed
C9_Witness ==
    /\ keys[1] # NoKey /\ keys[2] # NoKey
    /\ WireLen(names[1]) = 255 /\ keys[1].ret = 255
    /\ WireLen(names[2]) = 256 /\ ~HasBadLen(names[2]) /\ keys[2].ret = 0

(***************************************************************************)
(* Vocabulary of the claims about the tree                                 *)
(***************************************************************************)
\* what the slot on top of a path holds
TopOf(tree, pth) ==
    IF pth = <<>> THEN NULL ELSE Deref(tree, pth[Len(pth)].noderef)

\* the last call has returned a code
Returned ==
    rc \in {"ok", "not_found", "no_memory"}

RECURSIVE LeafKeys(_), LeafKeysIn(_, _)
\* the keys of the leaves below a node, one entry for every leaf
LeafKeys(node) ==
    IF node.kind = "leaf" THEN <<node.key>>
    ELSE IF node.kind = "node" THEN LeafKeysIn(node, Slots(node.type))
    ELSE <<>>

LeafKeysIn(node, n) ==
    IF n = 0 THEN <<>>
    ELSE LeafKeysIn(node, n - 1) \o LeafKeys(node.children[n - 1])

\* the octets a node binds to one of its slots
RouteOctets(node, slot) ==
    CASE node.type \in {"node4", "node16", "node32"} ->
           IF slot < node.width THEN {node.keys[slot]} ELSE {}
      [] node.type = "node38" -> {k \in 0..255 : node38_xlat(k) = slot}
      [] node.type = "node48" ->
           {k \in DOMAIN node.keys : node.keys[k] = slot + 1}
      [] node.type = "node256" -> {slot}

\* the offset in the key of the first octet of the prefix of the node on
\* level i of a path
PrefixAt(pth, i) ==
    IF i = 1 THEN 0 ELSE pth[i].depth + 1

\* the prefix of the node on level i equals the key behind the routing octet
PrefixMatches(tree, pth, key, i) ==
    LET n == Deref(tree, pth[i].noderef)
        d == PrefixAt(pth, i)
    IN  /\ n.kind = "node"
        /\ d + Len(n.prefix) <= Len(key)
        /\ SubSeq(key, d + 1, d + Len(n.prefix)) = n.prefix

\* level i is a slot of the node on level i - 1, bound to the key octet
\* behind that node's prefix
RoutedBy(tree, pth, key, i) ==
    LET up == Deref(tree, pth[i - 1].noderef)
        ref == pth[i].noderef
    IN  /\ PrefixMatches(tree, pth, key, i - 1)
        /\ Front(ref) = pth[i - 1].noderef
        /\ pth[i].depth = PrefixAt(pth, i - 1) + Len(up.prefix)
        /\ pth[i].depth < Len(key)
        /\ KeyAt(key, pth[i].depth) \in RouteOctets(up, ref[Len(ref)])

\* every level of the path is reached by the octets of the key
PathMatches(tree, pth, key) ==
    /\ Len(pth) >= 1
    /\ pth[1] = Level(0, <<>>)
    /\ \A i \in 2..Len(pth) : RoutedBy(tree, pth, key, i)
    /\ PrefixMatches(tree, pth, key, Len(pth))

\* a child that a matching descent for key, arrived at offset d of the key,
\* cannot enter: none, a leaf of another key, or a node whose prefix differs
Mismatching(child, key, d) ==
    \/ child.kind = "null"
    \/ child.kind = "leaf" /\ child.key # key
    \/ /\ child.kind = "node"
       /\ \/ d + 1 + Len(child.prefix) > Len(key)
          \/ SubSeq(key, d + 2, d + 1 + Len(child.prefix)) # child.prefix

\* no child of the node on top of the path continues the descent
Deepest(tree, pth, key) ==
    LET top == TopOf(tree, pth)
        d == PrefixAt(pth, Len(pth)) + Len(top.prefix)
    IN  \A slot \in 0..(Slots(top.type) - 1) :
            KeyAt(key, d) \in RouteOctets(top, slot)
                => Mismatching(top.children[slot], key, d)

(***************************************************************************)
(* Specification of calls that resume from the path an earlier call left:  *)
(* tree.c:579-589, 647-657.  The caller keeps the path of the last call    *)
(* and passes it on with a key whose descent runs through its levels.      *)
(***************************************************************************)
\* main.c:87-88: a run on one of the families fams, before its first call
InitWith(fams) ==
    /\ names \in fams
    /\ keys = [i \in DOMAIN names |-> nsd_make_key(names[i])]
    /\ build \in Builds
    /\ root = InitRoot
    /\ path = <<>>
    /\ rc = "none"
    /\ op = "none"
    /\ arg = <<>>
    /\ stored = {}

\* foo. with two names below it, aaaaaaaa. with two names below it
ResumeFamilies ==
    {SubSeq(FamZone, 1, 3), SubSeq(FamChain, 1, 3)}

InitResume ==
    InitWith(ResumeFamilies)

\* every level of the path lies on the descent of the key
OnDescent(tree, pth, key) ==
    /\ Len(pth) >= 1
    /\ pth[1] = Level(0, <<>>)
    /\ \A i \in 2..Len(pth) : RoutedBy(tree, pth, key, i)

\* nsd_find_path on the path the last call returned
FindResume(i) ==
    /\ Returned
    /\ Usable(i)
    /\ OnDescent(root, path, KeyArg(i))
    /\ \E r \in {nsd_find_path(root, path, KeyArg(i), keys[i].ret)} :
           /\ path' = r.path
           /\ rc' = r.rc
    /\ op' = "refind"
    /\ arg' = KeyArg(i)
    /\ UNCHANGED <<names, keys, build, root, stored>>

\* nsd_make_path on the path the last call returned
MakeResume(i) ==
    /\ Returned
    /\ Usable(i)
    /\ LeafCount(root) < MaxLeaves
    /\ OnDescent(root, path, KeyArg(i))
    /\ \E r \in {nsd_make_path(root, path, KeyArg(i), keys[i].ret, NoFail)} :
           /\ root' = IF r.rc \in {"abort", "fault"} THEN root ELSE r.tree
           /\ path' = r.path
           /\ rc' = r.rc
           /\ stored' = IF r.rc = "ok" THEN stored \cup {KeyArg(i)} ELSE stored
    /\ op' = "remake"
    /\ arg' = KeyArg(i)
    /\ UNCHANGED <<names, keys, build>>

NextResume ==
    \/ \E i \in DOMAIN names : MakePath(i, NoFail)
    \/ \E i \in DOMAIN names : FindPath(i)
    \/ \E i \in DOMAIN names : FindResume(i)
    \/ \E i \in DOMAIN names : MakeResume(i)

SpecResume ==
    InitResume /\ [][NextResume]_vars

(***************************************************************************)
(* Specification of calls in which an allocation fails: calloc of          *)
(* tree.c:132 or malloc of tree.c:156 returns NULL after mem allocations   *)
(* of the call have succeeded.                                             *)
(***************************************************************************)
InitMem ==
    InitWith(ResumeFamilies \cup {FamWide})

NextMem ==
    \/ \E i \in DOMAIN names : MakePath(i, NoFail)
    \/ \E i \in DOMAIN names, mem \in 0..MaxAllocs : MakePath(i, mem)
    \/ \E i \in DOMAIN names : FindPath(i)

SpecMem ==
    InitMem /\ [][NextMem]_vars

(***************************************************************************)
(* Claims about the tree                                                   *)
(***************************************************************************)
\* C1: nsd_find_path started with height 0 returns nsd_ok if and only if an
\* earlier nsd_make_path of the same key returned nsd_ok
C1_FindOkIffMade ==
    (op = "find" /\ Returned) => ((rc = "ok") <=> (arg \in stored))

\* C2: when nsd_find_path or nsd_make_path returns nsd_ok the path has a
\* level and the slot on top of it holds a leaf whose key is the input key
C2_OkTopIsLeafOfKey ==
    (op \in {"find", "make"} /\ rc = "ok")
        => /\ Len(path) >= 1
           /\ TopOf(root, path).kind = "leaf"
           /\ TopOf(root, path).key = arg

\* C3: nsd_make_path of a key that is stored returns nsd_ok, leaves the
\* tree with its nodes, leaves and payloads as it was, and the top of the
\* path is the leaf of the key
C3_ReinsertChangesNothing ==
    [][(op' = "make" /\ arg' \in stored)
           => /\ rc' = "ok"
              /\ root' = root
              /\ TopOf(root', path').kind = "leaf"
              /\ TopOf(root', path').key = arg']_vars

\* C4: no two leaves reachable from the root store equal keys
C4_NoTwoLeavesEqualKeys ==
    \A i, j \in 1..Len(LeafKeys(root)) :
        i # j => LeafKeys(root)[i] # LeafKeys(root)[j]

\* C10: when nsd_find_path started with height 0 returns nsd_not_found the
\* tree is unchanged, the path has a level, its top is an inner node, every
\* level left in it is reached by the octets and prefixes of the key, and no
\* child of the top continues the descent
C10_NotFoundLeavesDeepestMatch ==
    [][(op' = "find" /\ rc' = "not_found")
           => /\ root' = root
              /\ Len(path') >= 1
              /\ TopOf(root', path').kind = "node"
              /\ PathMatches(root', path', arg')
              /\ Deepest(root', path', arg')]_vars

\* C11: a call that resumes from a path lying on the descent of its key
\* returns the code, the path and the tree of the call with height 0
C11_ResumeEqualsFresh ==
    [][/\ op' = "refind" =>
            \A f \in {nsd_find_path(root, <<>>, arg', Len(arg'))} :
                rc' = f.rc /\ path' = f.path /\ root' = root
       /\ op' = "remake" =>
            \A f \in {nsd_make_path(root, <<>>, arg', Len(arg'), NoFail)} :
                /\ rc' = f.rc
                /\ f.rc \in {"ok", "not_found"}
                       => path' = f.path /\ root' = f.tree]_vars

\* C12: when nsd_make_path returns nsd_no_memory the tree reachable from the
\* root is the tree before the call
C12_NoMemoryRollsBack ==
    [][(op' = "make" /\ rc' = "no_memory") => root' = root]_vars

(***************************************************************************)
(* Claims about the split at a leaf: tree.c:674-733, 770-792               *)
(***************************************************************************)
\* no leaf lies on the descent
NoLeaf ==
    [found |-> FALSE, depth |-> 0, noderef |-> <<>>]

RECURSIVE LeafOnDescent(_, _, _, _)
\* the leaf that the octets and prefixes of key lead to from the slot
\* noderef, whose node has the first octet of its prefix at offset d of the
\* key: its slot and the depth of its level
LeafOnDescent(tree, noderef, key, d) ==
    LET n == Deref(tree, noderef)
    IN  IF n.kind = "leaf"
        THEN [found |-> TRUE, depth |-> d - 1, noderef |-> noderef]
        ELSE IF \/ n.kind # "node"
                \/ d + Len(n.prefix) >= Len(key)
                \/ SubSeq(key, d + 1, d + Len(n.prefix)) # n.prefix
        THEN NoLeaf
        ELSE
        LET d2 == d + Len(n.prefix)
            S == {s \in 0..(Slots(n.type) - 1) :
                     /\ KeyAt(key, d2) \in RouteOctets(n, s)
                     /\ n.children[s].kind # "null"}
        IN  IF S = {} THEN NoLeaf
            ELSE LeafOnDescent(tree, Append(noderef, SetMin(S)), key, d2 + 1)

\* the tree and the path after the split at the leaf `leaf` found at level
\* e, whose key differs from key at index cnt: the node above the top of the
\* path is a node4 of the two leaves, bound to their octets at cnt, the top
\* is the new leaf at depth cnt, and every level is routed by the key
LeafSplitDone(tree, pth, key, leaf, cnt, e) ==
    /\ Len(pth) >= 2
    /\ OnDescent(tree, pth, key)
    /\ pth[Len(pth)].depth = cnt
    /\ TopOf(tree, pth) = make_leaf(key, Len(key))
    /\ LET tipref == Front(pth[Len(pth)].noderef)
           tip == Deref(tree, tipref)
       IN  /\ Len(tipref) >= Len(e.noderef)
           /\ SubSeq(tipref, 1, Len(e.noderef)) = e.noderef
           /\ tip.kind = "node"
           /\ tip.type = "node4"
           /\ tip.width = 2
           /\ \E s \in 0..1 : /\ tip.keys[s] = KeyAt(leaf.key, cnt)
                              /\ tip.children[s] = leaf
           /\ \E s \in 0..1 : /\ tip.keys[s] = KeyAt(key, cnt)
                              /\ pth[Len(pth)].noderef = Append(tipref, s)

\* C13: when nsd_make_path splits at a leaf whose key first differs from
\* the new key at index cnt, the chain consumes the common octets from the
\* depth of the leaf's level up to cnt, its last node has exactly two
\* children, the old leaf under leaf.key[cnt] and the new leaf under
\* key[cnt], and the path runs through the whole chain to the new leaf
C13_LeafSplitAtTip ==
    [][(op' = "make" /\ rc' = "ok")
           => \A e \in {LeafOnDescent(root, <<>>, arg', 0)} :
                  (e.found /\ Deref(root, e.noderef).key # arg')
                      => \A leaf \in {Deref(root, e.noderef)} :
                         \A cnt \in {compare_keys(arg', Len(arg'),
                                                  leaf.key, Len(leaf.key))} :
                             LeafSplitDone(root', path', arg', leaf, cnt, e)]_vars

(***************************************************************************)
(* Specification of one node: tree.c:770-782 applied to a single node.     *)
(* Keys that agree up to the node's depth reach the node one after the     *)
(* other; for every key the code asks find_child for the octet at that     *)
(* depth and, when it answers NULL, adds a leaf with add_child.  The keys  *)
(* are those of the root name and of names of one label of one octet, so   *)
(* the octet is the first one of the key.  names is the order in which the *)
(* names arrive, stored the keys whose leaf was added.                     *)
(***************************************************************************)
\* the name of one label of one octet o
OneLabel(o) ==
    Wire(<<<<o>>>>)

\* the names of the labels s[1], s[2], ...
OneLabels(s) ==
    [i \in DOMAIN s |-> OneLabel(s[i])]

\* lo, lo + 1, ..., hi
Range(lo, hi) ==
    [i \in 1..(hi - lo + 1) |-> lo + i - 1]

\* the root name, "-", "0".."9" and "a".."u": 33 keys of host names; then
\* "{" and 0xff, which are none; then "v" and "w"
ScenHost ==
    <<Wire(<<>>)>> \o OneLabels(<<45>> \o Range(48, 57) \o Range(97, 117))
                   \o OneLabels(<<123, 255, 118, 119>>)

\* 51 octets that are no host name octets, their keys on both sides of
\* 0x80, then 0xff
ScenWide ==
    OneLabels(Range(130, 180) \o <<255>>)

Scenarios ==
    {ScenHost, ScenWide, Reverse(ScenHost), Reverse(ScenWide)}

\* a node4 with a prefix and no child yet, as tree.c:693-705 makes it
InitNode ==
    /\ names \in Scenarios
    /\ keys = [i \in DOMAIN names |-> nsd_make_key(names[i])]
    /\ build \in Builds
    /\ root = [alloc_node("node4") EXCEPT !.prefix = <<72, 73>>]
    /\ path = <<>>
    /\ rc = "none"
    /\ op = "none"
    /\ arg = <<>>
    /\ stored = {}

\* key[depth] at the node: the first octet of the key of names[i]
Octet(i) ==
    KeyAt(KeyArg(i), 0)

\* tree.c:770-771: find_child for the octet of any of the names; the path
\* gets the slot returned
FindChild(i) ==
    /\ Alive
    /\ Usable(i)
    /\ \E childref \in {find_child(root, Octet(i))} :
           /\ path' = IF childref \in {NoSlot, WildSlot} THEN <<>>
                      ELSE <<Level(0, <<childref>>)>>
           /\ rc' = IF childref = WildSlot THEN "fault"
                    ELSE IF childref = NoSlot THEN "not_found"
                    ELSE "ok"
    /\ op' = "find_child"
    /\ arg' = KeyArg(i)
    /\ UNCHANGED <<names, keys, build, root, stored>>

\* tree.c:777-791: the next name arrives, find_child gave NULL for its
\* octet, and the leaf of its key is added
AddChild(i) ==
    /\ Alive
    /\ Usable(i)
    /\ i = Cardinality(stored) + 1
    /\ find_child(root, Octet(i)) = NoSlot
    /\ \E r \in {add_child(root, Octet(i),
                           make_leaf(KeyArg(i), keys[i].ret), NoFail)} :
           /\ root' = IF r.st = "ok" THEN r.node ELSE root
           /\ path' = IF r.st = "ok" THEN <<Level(0, <<r.idx>>)>> ELSE <<>>
           /\ rc' = r.st
           /\ stored' = IF r.st = "ok" THEN stored \cup {KeyArg(i)} ELSE stored
    /\ op' = "add_child"
    /\ arg' = KeyArg(i)
    /\ UNCHANGED <<names, keys, build>>

NextNode ==
    \/ \E i \in DOMAIN names : FindChild(i)
    \/ \E i \in DOMAIN names : AddChild(i)

SpecNode ==
    InitNode /\ [][NextNode]_vars

(***************************************************************************)
(* Claims about one node: find_child and add_child, tree.c:174-566         *)
(***************************************************************************)
\* the octets of keys: 0x00 and xlat(o) for every octet o of a label
KeyOctets ==
    {0} \cup {xlat(o) : o \in 0..255}

\* the child that find_child leads to for octet k: the content of the slot
\* it returns, NULL when it returns none
FoundChild(node, k) ==
    LET childref == find_child(node, k)
    IN  IF childref \in DOMAIN node.children THEN node.children[childref]
        ELSE NULL

\* C14: when add_child replaces a full node by a larger variant, every
\* child find_child reached under an octet before is reached under the same
\* octet afterwards, no octet but the one added gains a child, the prefix is
\* carried over and the width is the old width plus the child added
C14_PromotionKeepsBindings ==
    [][(op' = "add_child" /\ rc' = "ok" /\ root'.type # root.type)
           => /\ \A k \in KeyOctets :
                     IF FoundChild(root, k) # NULL
                     THEN FoundChild(root', k) = FoundChild(root, k)
                     ELSE k # KeyAt(arg', 0) => FoundChild(root', k) = NULL
              /\ FoundChild(root', KeyAt(arg', 0)) = make_leaf(arg', Len(arg'))
              /\ root'.prefix = root.prefix
              /\ root'.width = root.width + 1]_vars

\* C15: find_child returns a slot for the octet of a key if and only if the
\* leaf of that key was added to the node, the slot then holds that leaf,
\* and for an octet with no child it returns NULL
C15_FindChildIffAdded ==
    op = "find_child"
        => IF arg \in stored
           THEN rc = "ok" /\ TopOf(root, path) = make_leaf(arg, Len(arg))
           ELSE rc = "not_found"

(***************************************************************************)
(* Claims about the asserts at a leaf: tree.c:597-599, 665-667             *)
(***************************************************************************)
\* assert(key_len >= leaf->key_len); assert(cnt >= depth) for the leaf on
\* level e, where depth is one behind the depth of that level
LeafAssertsHold(leaf, key, e) ==
    /\ Len(key) >= Len(leaf.key)
    /\ compare_keys(key, Len(key), leaf.key, Len(leaf.key)) >= e.depth + 1

\* C16: in every nsd_find_path and nsd_make_path call with height 0 whose
\* descent reaches a leaf, the key is at least as long as the leaf's key
\* and the two keys agree at least up to the current depth, so the call
\* does not end in a failed assert
C16_LeafAssertsHold ==
    [][op' \in {"find", "make"}
           => \A e \in {LeafOnDescent(root, <<>>, arg', 0)} :
                  e.found => /\ LeafAssertsHold(Deref(root, e.noderef), arg', e)
                             /\ rc' # "abort"]_vars

(***************************************************************************)
(* Claims about the octets on the way to a leaf                            *)
(***************************************************************************)
RECURSIVE RoutesSpellKeys(_, _)
\* for every leaf below node, acc followed by the prefixes of the nodes
\* passed and the octets their slots are bound to is a prefix of the leaf's
\* key; acc is what led to node.  The prefix is the whole key where the last
\* octet of the key is the routing octet (the root name, whose key is one
\* octet, and a name stored next to its descendants).
RoutesSpellKeys(node, acc) ==
    IF node.kind = "leaf"
    THEN IsPrefix(acc, node.key)
    ELSE IF node.kind = "node"
    THEN \A s \in 0..(Slots(node.type) - 1) :
             node.children[s] # NULL
                 => \A k \in RouteOctets(node, s) :
                        RoutesSpellKeys(node.children[s],
                                        acc \o node.prefix \o <<k>>)
    ELSE TRUE

\* C17: for every leaf the prefixes and routing octets on the way from the
\* root spell a prefix of the leaf's key, and along a path returned
\* with nsd_ok the depth of every level is the key index of the octet that
\* led into it
C17_RoutesSpellKeys ==
    /\ RoutesSpellKeys(root, <<>>)
    /\ (op \in {"find", "make"} /\ rc = "ok") => OnDescent(root, path, arg)

\* C18: in a node4, node16 or node32 the keys are strictly ascending over
\* [0..width) after any sequence of add_child calls
C18_KeysAscending ==
    root.type \in {"node4", "node16", "node32"}
        => \A i, j \in 0..(root.width - 1) :
               i < j => root.keys[i] < root.keys[j]

(***************************************************************************)
(* Claims about the split at a node with a prefix: tree.c:734-768          *)
(***************************************************************************)
RECURSIVE PrefixOnDescent(_, _, _, _)
\* the node with a prefix that differs from the key, met on the way the
\* octets and prefixes of key lead from the slot noderef, whose node has the
\* first octet of its prefix at offset d of the key: its slot and d
PrefixOnDescent(tree, noderef, key, d) ==
    LET n == Deref(tree, noderef)
    IN  IF n.kind # "node" \/ d >= Len(key) THEN NoLeaf
        ELSE IF compare_keys(Drop(key, d), Len(key) - d, n.prefix, Len(n.prefix))
                    # Len(n.prefix)
        THEN [found |-> TRUE, depth |-> d, noderef |-> noderef]
        ELSE
        LET d2 == d + Len(n.prefix)
            S == {s \in 0..(Slots(n.type) - 1) :
                     /\ d2 < Len(key)
                     /\ KeyAt(key, d2) \in RouteOctets(n, s)
                     /\ n.children[s].kind # "null"}
        IN  IF S = {} THEN NoLeaf
            ELSE PrefixOnDescent(tree, Append(noderef, SetMin(S)), key, d2 + 1)

\* a call with height 0 finds key k in tree, the top of its path the leaf of k
Findable(tree, k) ==
    \A f \in {nsd_find_path(tree, <<>>, k, Len(k))} :
        f.rc = "ok" /\ TopOf(tree, f.path) = make_leaf(k, Len(k))

\* the slot at, which held the node old with a prefix that differs from
\* key + d at offset cnt, after the split: a node4 with the first cnt octets
\* of the prefix and two children, old with the octets behind offset cnt as
\* its prefix under old.prefix[cnt], and the leaf of key under key[d + cnt],
\* on which the path ends
SplitNodeDone(tree, pth, key, old, at, d, cnt) ==
    LET new == Deref(tree, at)
    IN  /\ new.kind = "node"
        /\ new.type = "node4"
        /\ new.prefix = SubSeq(old.prefix, 1, cnt)
        /\ new.width = 2
        /\ \E s \in 0..1 :
               /\ new.keys[s] = old.prefix[cnt + 1]
               /\ new.children[s] =
                      [old EXCEPT !.prefix = SubSeq(old.prefix, cnt + 2,
                                                    Len(old.prefix))]
               /\ Len(new.children[s].prefix) = Len(old.prefix) - (cnt + 1)
        /\ \E s \in 0..1 :
               /\ new.keys[s] = KeyAt(key, d + cnt)
               /\ new.children[s] = make_leaf(key, Len(key))
               /\ pth # <<>>
               /\ pth[Len(pth)] = Level(d + cnt, Append(at, s))

\* C19: when nsd_make_path meets a node whose prefix differs from the key at
\* offset cnt < prefix_len, a new node4 with the first cnt octets of the
\* prefix takes the node's slot, the old node is its child under
\* old.prefix[cnt] with the prefix behind that octet, the new leaf its second
\* child under the diverging octet of the key, and every key found below the
\* old node before is found afterwards
C19_NodeSplit ==
    [][op' = "make"
           => \A e \in {PrefixOnDescent(root, <<>>, arg', 0)} :
                  e.found
                      => \A old \in {Deref(root, e.noderef)} :
                         \A cnt \in {compare_keys(Drop(arg', e.depth),
                                                  Len(arg') - e.depth,
                                                  old.prefix, Len(old.prefix))} :
                             /\ rc' = "ok"
                             /\ SplitNodeDone(root', path', arg', old,
                                              e.noderef, e.depth, cnt)
                             /\ \A i \in 1..Len(LeafKeys(old)) :
                                    Findable(root, LeafKeys(old)[i])
                                        => Findable(root', LeafKeys(old)[i])]_vars

\* a node with a prefix was split at its first octet and at a later one,
\* and a key below the old node is found
C19_Witness ==
    /\ op = "make"
    /\ rc = "ok"
    /\ Len(path) >= 2
    /\ OnDescent(root, path, arg)
    /\ TopOf(root, path) = make_leaf(arg, Len(arg))
    /\ LET new == Deref(root, Front(path[Len(path)].noderef))
       IN  /\ new.kind = "node"
           /\ new.width = 2
           /\ Len(new.prefix) >= 1
           /\ \E s \in 0..1 :
                  /\ new.children[s].kind = "node"
                  /\ new.children[s].width = 2
                  /\ Len(new.children[s].prefix) >= 1
                  /\ \E t \in 0..1 :
                         /\ new.children[s].children[t].kind = "leaf"
                         /\ Findable(root, new.children[s].children[t].key)

\* C20: every find_child and add_child on a node48 or node256 indexes the
\* keys table of the node48, or the children of the node256, with an octet
\* inside the array of NSD_MAX_WIDTH entries
C20_OctetsIndexTables ==
    [][(op' \in {"find_child", "add_child"}
            /\ root.type \in {"node48", "node256"})
           => /\ KeyAt(arg', 0) \in KeyOctets
              /\ KeyAt(arg', 0) \in DOMAIN (IF root.type = "node48"
                                            THEN root.keys
                                            ELSE root.children)
              /\ rc' # "fault"]_vars

(***************************************************************************)
(* Claims about the variant of a node: tree.c:248-566                      *)
(***************************************************************************)
\* the variants a full node is replaced by
Promotions ==
    { <<"node4", "node16">>, <<"node16", "node32">>, <<"node32", "node38">>,
      <<"node32", "node48">>, <<"node38", "node48">>, <<"node48", "node256">> }

HostOctets ==
    {0} \cup {xlat(o) : o \in {45} \cup (48..57) \cup (97..122)}

\* C22: a node38 binds children only under octets of host names; a full
\* node32 becomes a node38 only when the octet added and the 32 octets
\* present are such octets, otherwise a node48, and a node38 given another
\* octet becomes a node48
C22_Node38HoldsHostOctets ==
    [][(op' = "add_child" /\ rc' = "ok")
           => /\ (root.type = "node32" /\ root.width = 32)
                     => root'.type =
                            IF /\ KeyAt(arg', 0) \in HostOctets
                               /\ \A idx \in 0..31 : root.keys[idx] \in HostOctets
                            THEN "node38" ELSE "node48"
              /\ (root.type = "node38" /\ KeyAt(arg', 0) \notin HostOctets)
                     => root'.type = "node48"
              /\ root'.type = "node38"
                     => \A s \in 0..37 :
                            root'.children[s] # NULL
                                => \E k \in stored' :
                                       /\ KeyAt(k, 0) \in HostOctets
                                       /\ RouteOctets(root', s) = {KeyAt(k, 0)}
                                       /\ root'.children[s]
                                              = make_leaf(k, Len(k))]_vars

\* a full node32 of host name octets has become a node38
C22_Witness ==
    /\ op = "add_child"
    /\ rc = "ok"
    /\ root.type = "node38"
    /\ root.width = 33
    /\ Cardinality({s \in 0..37 : root.children[s] # NULL}) = 33

(***************************************************************************)
(* Specification of one node with names that arrive again: main.c:91-108   *)
(* passes every argument on, whether or not its key is already stored.     *)
(* find_child is asked as before and, when it answers NULL for a key whose *)
(* leaf is in the node, a second leaf is added.                            *)
(***************************************************************************)
\* the first six names of a list
FirstSix(s) ==
    SubSeq(s, 1, 6)

InitAgain ==
    /\ names \in {FirstSix(ScenHost), FirstSix(Reverse(ScenHost))}
    /\ keys = [i \in DOMAIN names |-> nsd_make_key(names[i])]
    /\ build \in Builds
    /\ root = [alloc_node("node4") EXCEPT !.prefix = <<72, 73>>]
    /\ path = <<>>
    /\ rc = "none"
    /\ op = "none"
    /\ arg = <<>>
    /\ stored = {}

\* tree.c:770-791 for a name whose key is stored: find_child gave NULL for
\* its octet and another leaf of the key is added
AddAgain(i) ==
    /\ Alive
    /\ Usable(i)
    /\ KeyArg(i) \in stored
    /\ root.width < Cardinality(stored) + MaxAgain
    /\ find_child(root, Octet(i)) = NoSlot
    /\ \E r \in {add_child(root, Octet(i),
                           make_leaf(KeyArg(i), keys[i].ret), NoFail)} :
           /\ root' = IF r.st = "ok" THEN r.node ELSE root
           /\ path' = IF r.st = "ok" THEN <<Level(0, <<r.idx>>)>> ELSE <<>>
           /\ rc' = r.st
    /\ op' = "add_again"
    /\ arg' = KeyArg(i)
    /\ UNCHANGED <<names, keys, build, stored>>

NextAgain ==
    \/ \E i \in DOMAIN names : FindChild(i)
    \/ \E i \in DOMAIN names : AddChild(i)
    \/ \E i \in DOMAIN names : AddAgain(i)

SpecAgain ==
    InitAgain /\ [][NextAgain]_vars

(***************************************************************************)
(* Claims about width and prefix_len: tree.c:143-148, 248-542              *)
(***************************************************************************)
\* the octets under which a node has a child
BoundOctets(node) ==
    UNION {RouteOctets(node, s) :
               s \in {t \in 0..(Slots(node.type) - 1) : node.children[t] # NULL}}

RECURSIVE WidthsMatch(_)
\* in every node at or below n the width is the number of octets with a
\* child and at most the capacity of the variant, and the prefix has at most
\* NSD_MAX_PREFIX octets
WidthsMatch(n) ==
    IF n.kind # "node" THEN TRUE
    ELSE /\ n.width = Cardinality(BoundOctets(n))
         /\ n.width <= Slots(n.type)
         /\ Len(n.prefix) <= NSD_MAX_PREFIX
         /\ \A s \in 0..(Slots(n.type) - 1) : WidthsMatch(n.children[s])

\* C23: in every reachable tree every inner node's width is the number of
\* octets under which it has a child and at most the capacity of its
\* variant, and every prefix_len is at most NSD_MAX_PREFIX
C23_WidthIsChildCount ==
    WidthsMatch(root)

(***************************************************************************)
(* Claims about a failed allocation in the chain: tree.c:687-717           *)
(***************************************************************************)
\* the objects freed are m nodes at m places
FreedAll(freed, m) ==
    /\ Len(freed) = m
    /\ \A k \in 1..Len(freed) : freed[k].node.kind = "node"
    /\ \A k, l \in 1..Len(freed) : k # l => freed[k].at # freed[l].at

\* C24: when the allocation of a node4 fails while nsd_make_path builds the
\* chain for the split of a leaf, the call returns nsd_no_memory, every node
\* allocated for the chain has been freed, the leaf is in its slot, and the
\* tree and the levels of the path are those of the descent to the leaf
C24_ChainFailureRollsBack ==
    [][(op' = "make" /\ rc' = "no_memory")
           => \A e \in {LeafOnDescent(root, <<>>, arg', 0)} :
                  (e.found /\ Deref(root, e.noderef).key # arg')
                      => \A m \in 0..MaxAllocs :
                         \A r \in {nsd_make_path(root, <<>>, arg', Len(arg'), m)} :
                         \A ch \in {split_chain(
                                      arg', e.depth,
                                      compare_keys(arg', Len(arg'),
                                                   Deref(root, e.noderef).key,
                                                   Len(Deref(root, e.noderef).key)),
                                      m, NULL, <<>>)} :
                             ch.st = "nomem"
                                 => /\ r.rc = "no_memory"
                                    /\ FreedAll(ch.freed, m)
                                    /\ r.tree = root
                                    /\ Deref(r.tree, e.noderef)
                                           = Deref(root, e.noderef)
                                    /\ r.path # <<>>
                                    /\ r.path[Len(r.path)]
                                           = Level(e.depth, e.noderef)
                                    /\ OnDescent(root, r.path, arg')
                                    /\ (r.tree = root' /\ r.path = path')
                                           \/ root' # root]_vars

\* nsd_make_path has returned nsd_no_memory with the tree as it was, its
\* path ends at a leaf of another key, and the octets the two keys share
\* behind the leaf's level need a chain of two nodes
C24_Witness ==
    /\ op = "make"
    /\ rc = "no_memory"
    /\ path # <<>>
    /\ TopOf(root, path).kind = "leaf"
    /\ TopOf(root, path).key # arg
    /\ compare_keys(arg, Len(arg), TopOf(root, path).key,
                    Len(TopOf(root, path).key))
           - path[Len(path)].depth > NSD_MAX_PREFIX + 1

(***************************************************************************)
(* Claims about the height of a path: tree.h:160-170, tree.c:623-631, 719-729 *)
(***************************************************************************)
\* C25: after nsd_find_path or nsd_make_path started with height 0 on a key,
\* the height of the path is at most the length of the key (at most 255), and
\* the depths of levels 1..height-1 are strictly increasing
C25_HeightBounded ==
    (op \in {"find", "make"} /\ Returned)
        => /\ Len(path) <= Len(arg)
           /\ Len(path) <= NSD_MAX_HEIGHT
           /\ \A i \in 2..(Len(path) - 1) : path[i].depth < path[i + 1].depth

\* a call has returned a path of four levels or more
C25_Witness ==
    /\ op \in {"find", "make"}
    /\ Returned
    /\ Len(path) >= 4

(***************************************************************************)
(* Claims about the key buffer: tree.c:68-90, tree.h:65-67                 *)
(***************************************************************************)
\* C26: for every wire name whose length octets have their top two bits
\* clear, nsd_make_key writes only key[0..254] (ptr[1..255]), and what it
\* returns is 0 or the number of octets written, never that number reduced
\* modulo 256
C26_KeyBufferBounded ==
    \A i \in 1..2 :
        (keys[i] # NoKey /\ ~HasBadLen(names[i]))
            => /\ Len(keys[i].ptr) <= NSD_MAX_HEIGHT
               /\ keys[i].ret # 0 => keys[i].ret = Len(keys[i].ptr)
               /\ keys[i].ret = 0 => Len(keys[i].ptr) < 256

(***************************************************************************)
(* The search primitives on their own: simd.h:21-96.  root is a node16 or  *)
(* node32 whose keys are the vector and whose width is max, as find_child16*)
(* and find_child32 pass them (tree.c:198, 208); arg holds chr and path    *)
(* the uint8_t returned.                                                   *)
(***************************************************************************)
\* number of leading vector entries that vary; the others are zero, as
\* alloc_node leaves them
MaxVec ==
    3

\* the octets searched for and found in the vectors: zero, a small octet and
\* one with the top bit set
VecOctets ==
    {0, 7, 130}

\* the vectors of a node type
Vectors(type) ==
    { [i \in 0..(KeySlots(type) - 1) |-> IF i < MaxVec THEN head[i] ELSE 0] :
          head \in [0..(MaxVec - 1) -> VecOctets] }

InitSimd ==
    /\ names = <<>>
    /\ keys = <<>>
    /\ build \in Builds
    /\ \E type \in {"node16", "node32"} :
       \E vec \in Vectors(type) :
       \E max \in (0..MaxVec) \cup {KeySlots(type)} :
           root = [alloc_node(type) EXCEPT !.keys = vec, !.width = max]
    /\ path = <<>>
    /\ rc = "none"
    /\ op = "none"
    /\ arg = <<>>
    /\ stored = {}

\* simd.h:21-33, 48-57
V16FindEq(chr) ==
    /\ root.type = "node16"
    /\ path' = <<nsd_v16_findeq_u8(chr, root.keys, root.width)>>
    /\ op' = "v16_findeq"
    /\ arg' = <<chr>>
    /\ rc' = "ok"
    /\ UNCHANGED <<names, keys, build, root, stored>>

\* simd.h:35-46, 59-68
V16FindGt(chr) ==
    /\ root.type = "node16"
    /\ path' = <<nsd_v16_findgt_u8(chr, root.keys, root.width)>>
    /\ op' = "v16_findgt"
    /\ arg' = <<chr>>
    /\ rc' = "ok"
    /\ UNCHANGED <<names, keys, build, root, stored>>

\* simd.h:72-83
V32FindEq(chr) ==
    /\ root.type = "node32"
    /\ path' = <<nsd_v32_findeq_u8(chr, root.keys, root.width)>>
    /\ op' = "v32_findeq"
    /\ arg' = <<chr>>
    /\ rc' = "ok"
    /\ UNCHANGED <<names, keys, build, root, stored>>

\* simd.h:85-96
V32FindGt(chr) ==
    /\ root.type = "node32"
    /\ path' = <<nsd_v32_findgt_u8(chr, root.keys, root.width)>>
    /\ op' = "v32_findgt"
    /\ arg' = <<chr>>
    /\ rc' = "ok"
    /\ UNCHANGED <<names, keys, build, root, stored>>

NextSimd ==
    \/ \E chr \in VecOctets : V16FindEq(chr)
    \/ \E chr \in VecOctets : V16FindGt(chr)
    \/ \E chr \in VecOctets : V32FindEq(chr)
    \/ \E chr \in VecOctets : V32FindGt(chr)

SpecSimd ==
    InitSimd /\ [][NextSimd]_vars

\* the first n entries of the vector
FirstN ==
    IF root.width < KeySlots(root.type) THEN 0..(root.width - 1)
    ELSE 0..(KeySlots(root.type) - 1)

\* 1-based index of the least member of a set of positions, 0 for none
OneBased(hit) ==
    IF hit = {} THEN 0 ELSE SetMin(hit) + 1

\* C27: findeq(c, v, n) returns the 1-based index of the first i < n with
\* v[i] = c and 0 if there is none, findgt(c, v, n) the 1-based index of
\* the first i < n with v[i] > c (unsigned) and 0 if there is none,
\* whatever the entries at index n and above hold
C27_SearchFirstN ==
    /\ op \in {"v16_findeq", "v32_findeq"}
           => path[1] = OneBased({i \in FirstN : root.keys[i] = arg[1]})
    /\ op \in {"v16_findgt", "v32_findgt"}
           => path[1] = OneBased({i \in FirstN : root.keys[i] > arg[1]})

(***************************************************************************)
(* The node38 index translation on its own: tree.c:34-66.  arg holds the   *)
(* octet or index passed and path the uint8_t returned.                    *)
(***************************************************************************)
InitXlat ==
    /\ names = <<>>
    /\ keys = <<>>
    /\ build \in Builds
    /\ root = alloc_node("node38")
    /\ path = <<>>
    /\ rc = "none"
    /\ op = "none"
    /\ arg = <<>>
    /\ stored = {}

\* tree.c:34-49: any key octet (tree.c:189, 348)
Node38Xlat(key) ==
    /\ path' = <<node38_xlat(key)>>
    /\ op' = "node38_xlat"
    /\ arg' = <<key>>
    /\ rc' = "ok"
    /\ UNCHANGED <<names, keys, build, root, stored>>

\* tree.c:51-66: the index of any slot of a node38 (tree.c:319-322)
Node38Unxlat(idx) ==
    /\ path' = <<node38_unxlat(idx)>>
    /\ op' = "node38_unxlat"
    /\ arg' = <<idx>>
    /\ rc' = "ok"
    /\ UNCHANGED <<names, keys, build, root, stored>>

NextXlat ==
    \/ \E key \in 0..255 : Node38Xlat(key)
    \/ \E idx \in 0..(Slots("node38") - 1) : Node38Unxlat(idx)

SpecXlat ==
    InitXlat /\ [][NextXlat]_vars

\* C28: node38_xlat maps the 38 octets of the hostname alphabet one-to-one
\* onto the indices 0..37 and every other octet to -1, and node38_unxlat
\* gives the octet back: node38_unxlat(node38_xlat(k)) = k for every octet
\* k of the hostname alphabet
C28_Node38XlatInverse ==
    op = "node38_xlat"
        => IF arg[1] \in HostOctets
           THEN /\ path[1] \in 0..37
                /\ \A k \in HostOctets \ {arg[1]} : node38_xlat(k) # path[1]
                /\ node38_unxlat(path[1]) = arg[1]
           ELSE path[1] = NoIdx

=============================================================================
